---- MODULE Spec2Model ----
(***************************************************************************)
(* A model of the two leaf components of the repository:                   *)
(*   - sendChatMessage (src/src/api.ts): one HTTP request to the chat API  *)
(*     and the classification of its result;                               *)
(*   - useSpeechRecognition (src/unnamed/part_001): the controller around  *)
(*     the browser's speech-recognition engine.                            *)
(* The two share no state.  ChatSpec runs the chat client alone, Spec the  *)
(* speech controller alone, VoiceSpec a voice conversation that is never   *)
(* stopped, with the fairness of the event loop.                           *)
(***************************************************************************)
EXTENDS Integers, Sequences, FiniteSets, TLC

VARIABLES
    \* ---- chat client (src/src/api.ts)
    API_KEY,        \* import.meta.env.VITE_API_KEY
    chatPc,         \* position of the one sendChatMessage call
    chatArgs,       \* the arguments of the call
    requestBody,    \* the body handed to fetch
    fetchCalls,     \* number of fetch() calls issued
    response,       \* what fetch settled with
    raised,         \* the exception thrown inside the try block
    result,         \* what the call settled with
    \* ---- speech controller (src/unnamed/part_001)
    isSupported,            \* useState(false)
    isListening,            \* useState(false)
    transcript,             \* useState('')
    recognitionRef,         \* 0 for null, else the engine instance held
    onSpeechEndRef,         \* "null", or the utterance callback
    finalTranscriptRef,     \* accumulated final transcript
    isVoiceModeRef,
    timeoutRef,             \* "null", or "set": the id of the last restart timer
    isProcessingRef,        \* a dispatch is in flight
    lastProcessedTextRef,   \* the text of the last dispatch
    \* ---- the platform the controller runs on
    engines,        \* the state of every SpeechRecognition instance
    startCalls,     \* startListening calls awaiting the permission check
    dispatchTimers, \* pending setTimeout(..., 100) of onresult, oldest first
    restartTimers,  \* pending setTimeout(..., 1500) of restartListening, oldest first
    alerts,         \* number of alert() dialogs shown
    lastCallbackText \* the text of the last utterance callback invocation

chatVars == <<API_KEY, chatPc, chatArgs, requestBody, fetchCalls, response, raised, result>>

speechVars ==
    <<isSupported, isListening, transcript, recognitionRef, onSpeechEndRef,
      finalTranscriptRef, isVoiceModeRef, timeoutRef, isProcessingRef,
      lastProcessedTextRef, engines, startCalls, dispatchTimers, restartTimers,
      alerts, lastCallbackText>>

vars == <<chatVars, speechVars>>

-----------------------------------------------------------------------------
(* JavaScript values, as far as the chat client looks at them: undefined,  *)
(* null and strings, the types ApiResponse and ApiErrorResponse declare.   *)

JSUndef == [t |-> "undefined", v |-> ""]
JSNull == [t |-> "null", v |-> ""]
Str(s) == [t |-> "string", v |-> s]

\* ToBoolean: what `if (x)`, `!x`, `x && ...` and `x || ...` look at.
Truthy(x) ==
    ~ \/ x.t \in {"undefined", "null"}
      \/ x.t = "string" /\ x.v = ""

\* a || b
OrElse(a, b) == IF Truthy(a) THEN a ELSE b

\* String.prototype.includes on sequences of characters.
Includes(s, sub) ==
    \E i \in 0..(Len(s) - Len(sub)) :
        \A j \in 1..Len(sub) : s[i + j] = sub[j]

fetchWord == <<"f", "e", "t", "c", "h">>

\* The messages of the exceptions the platform throws, by name.
NativeMessage(id) ==
    CASE id = "FailedToFetch" ->
            <<"F", "a", "i", "l", "e", "d", " ", "t", "o", " ", "f", "e", "t", "c", "h">>
      [] id = "LoadFailed" ->
            <<"L", "o", "a", "d", " ", "f", "a", "i", "l", "e", "d">>
      [] id = "NetworkErrorFetch" ->
            <<"N", "e", "t", "w", "o", "r", "k", "E", "r", "r", "o", "r", " ",
              "w", "h", "e", "n", " ", "a", "t", "t", "e", "m", "p", "t", "i", "n", "g", " ",
              "t", "o", " ", "f", "e", "t", "c", "h", " ",
              "r", "e", "s", "o", "u", "r", "c", "e", ".">>
      [] id = "UnexpectedToken" ->
            <<"U", "n", "e", "x", "p", "e", "c", "t", "e", "d", " ",
              "t", "o", "k", "e", "n", " ", "<", " ", "i", "n", " ", "J", "S", "O", "N">>
      [] id = "ReadOfNull" ->
            <<"C", "a", "n", "n", "o", "t", " ", "r", "e", "a", "d", " ",
              "p", "r", "o", "p", "e", "r", "t", "i", "e", "s", " ", "o", "f", " ",
              "n", "u", "l", "l">>

NoDetails == [k |-> "none"]
NoError == [name |-> "", message |-> JSUndef, details |-> NoDetails]
Native(name, id) == [name |-> name, message |-> [t |-> "native", v |-> id], details |-> NoDetails]

\* new ChatApiError(message, details); super(message) keeps a string as it is.
ChatApiError(message, details) ==
    [name |-> "ChatApiError", message |-> message, details |-> details]

MsgMissingKey == Str("API anahtari bulunamadi")
MsgInvalidKey == Str("Gecersiz API anahtari")
MsgAccessDenied == Str("API erisimi reddedildi")
MsgInvalidRequest == Str("Gecersiz istek")
MsgServerError == Str("Sunucu hatasi")
MsgNetwork == Str("Ag baglanti hatasi")
MsgUnexpected == Str("Beklenmeyen bir hata olustu")

\* response.statusText, the reason phrase of the status.
StatusText(status) ==
    CASE status = 200 -> "OK"
      [] status = 201 -> "Created"
      [] status = 400 -> "Bad Request"
      [] status = 403 -> "Forbidden"
      [] status = 404 -> "Not Found"
      [] status = 500 -> "Internal Server Error"
      [] OTHER -> ""

\* `API yanit hatasi: ${response.status} ${response.statusText}`
StatusLine(status) ==
    CASE status = 400 -> Str("API yanit hatasi: 400 Bad Request")
      [] status = 403 -> Str("API yanit hatasi: 403 Forbidden")
      [] status = 404 -> Str("API yanit hatasi: 404 Not Found")
      [] status = 500 -> Str("API yanit hatasi: 500 Internal Server Error")
      [] OTHER -> Str("API yanit hatasi")

\* response.ok
Ok(status) == status >= 200 /\ status <= 299

-----------------------------------------------------------------------------
(* The inputs of the chat client.                                          *)

ApiKeys == {JSUndef, Str(""), Str("key")}
Messages == {"hello"}
Modes == {"query", "chat"}
SessionIds == {"s1"}
Attachment(n) == [name |-> n, mime |-> "text/plain", contentString |-> "data:"]
\* attachments?: undefined, or a sequence of attachments
AttachmentArgs ==
    { [defined |-> FALSE, items |-> <<>>],
      [defined |-> TRUE, items |-> <<>>],
      [defined |-> TRUE, items |-> <<Attachment("a")>>],
      [defined |-> TRUE, items |-> <<Attachment("a"), Attachment("b")>>] }

Statuses == {200, 201, 400, 403, 404, 500}
ErrorFields ==
    {JSUndef, JSNull, Str(""), Str("null"), Str("No valid api key found."), Str("boom")}
MessageFields == {JSUndef, Str(""), Str("Invalid API Key"), Str("bad")}
Bodies == [id : {"1"}, error : ErrorFields, message : MessageFields]
NoBody == [id |-> "", error |-> JSUndef, message |-> JSUndef]

\* What fetch settles with: a rejection (transport failure), or a response
\* whose body is a JSON object, the JSON value null, or not JSON at all.
Rejections == {"FailedToFetch", "LoadFailed", "NetworkErrorFetch"}
Responses ==
    { [kind |-> "reject", status |-> 0, json |-> "none", body |-> NoBody, err |-> r] :
        r \in Rejections }
    \cup { [kind |-> "http", status |-> s, json |-> "object", body |-> b, err |-> ""] :
        s \in Statuses, b \in Bodies }
    \cup { [kind |-> "http", status |-> s, json |-> j, body |-> NoBody, err |-> ""] :
        s \in Statuses, j \in {"null", "invalid"} }
NoResponse == [kind |-> "none", status |-> 0, json |-> "none", body |-> NoBody, err |-> ""]

NoArgs == [message |-> "", mode |-> "", sessionId |-> "", reset |-> FALSE,
           attachments |-> [defined |-> FALSE, items |-> <<>>]]
NoRequest == [message |-> ""]
NoResult == [kind |-> "pending", value |-> NoBody, error |-> NoError]

-----------------------------------------------------------------------------
(* sendChatMessage                                                         *)

\* BuildRequestBody adding attachments whenever the argument is given.
BuildRequestBodyIfDefined(a) ==
    IF a.attachments.defined
    THEN [message |-> a.message, mode |-> a.mode, sessionId |-> a.sessionId,
          reset |-> a.reset, attachments |-> a.attachments.items]
    ELSE [message |-> a.message, mode |-> a.mode, sessionId |-> a.sessionId,
          reset |-> a.reset]

\* requestBody: message, mode, sessionId, reset, and attachments only when
\* the argument is given and non-empty.
BuildRequestBody(a) ==
    IF a.attachments.defined /\ Len(a.attachments.items) > 0
    THEN [message |-> a.message, mode |-> a.mode, sessionId |-> a.sessionId,
          reset |-> a.reset, attachments |-> a.attachments.items]
    ELSE [message |-> a.message, mode |-> a.mode, sessionId |-> a.sessionId,
          reset |-> a.reset]

\* ClassifyErrorData with body.error consulted before body.message.
ClassifyErrorFirst(status, errorData) ==
    IF status = 403
    THEN IF errorData.error = Str("No valid api key found.")
            \/ errorData.message = Str("Invalid API Key")
         THEN MsgInvalidKey
         ELSE MsgAccessDenied
    ELSE IF status = 400
    THEN OrElse(errorData.message, MsgInvalidRequest)
    ELSE IF status = 500
    THEN MsgServerError
    ELSE IF Truthy(errorData.error)
    THEN errorData.error
    ELSE IF Truthy(errorData.message)
    THEN errorData.message
    ELSE StatusLine(status)

\* The message chosen for a non-ok response whose error body parsed to an object.
ClassifyErrorData(status, errorData) ==
    IF status = 403
    THEN IF errorData.error = Str("No valid api key found.")
            \/ errorData.message = Str("Invalid API Key")
         THEN MsgInvalidKey
         ELSE MsgAccessDenied
    ELSE IF status = 400
    THEN OrElse(errorData.message, MsgInvalidRequest)
    ELSE IF status = 500
    THEN MsgServerError
    ELSE IF Truthy(errorData.message)
    THEN errorData.message
    ELSE IF Truthy(errorData.error)
    THEN errorData.error
    ELSE StatusLine(status)

\* The errorMessage of the `!response.ok` branch: the status line unless the
\* error body parses; reading a field of a null body throws inside the inner
\* try and leaves the status line as well.
ErrorMessage(r) ==
    IF r.json = "object" THEN ClassifyErrorData(r.status, r.body) ELSE StatusLine(r.status)

\* HasApiError reading data.message instead of data.error.
HasApiErrorInMessage(data) ==
    Truthy(data.message) /\ data.message # Str("null") /\ data.message # JSNull

\* HasApiError without the comparison with the string 'null'.
HasApiErrorNullOnly(data) ==
    Truthy(data.error) /\ data.error # JSNull

\* data.error && data.error !== 'null' && data.error !== null
HasApiError(data) ==
    Truthy(data.error) /\ data.error # Str("null") /\ data.error # JSNull

\* What the try block does with a settled fetch: the exception it throws, or
\* NoError when it reaches `return data`.
ThrownInTry(r) ==
    IF r.kind = "reject" THEN Native("TypeError", r.err)
    ELSE IF ~Ok(r.status)
    THEN ChatApiError(ErrorMessage(r),
                      [k |-> "http", status |-> r.status, statusText |-> StatusText(r.status)])
    ELSE IF r.json = "invalid" THEN Native("SyntaxError", "UnexpectedToken")
    ELSE IF r.json = "null" THEN Native("TypeError", "ReadOfNull")
    ELSE IF HasApiError(r.body) THEN ChatApiError(r.body.error, [k |-> "body", body |-> r.body])
    ELSE NoError

\* Catch wrapping every exception, a ChatApiError included.
CatchWrapsAll(error) ==
    IF error.name = "TypeError" /\ Includes(NativeMessage(
           IF error.message.t = "native" THEN error.message.v ELSE "UnexpectedToken"), fetchWord)
    THEN ChatApiError(MsgNetwork, [k |-> "cause", cause |-> error])
    ELSE ChatApiError(MsgUnexpected, [k |-> "cause", cause |-> error])

\* The catch block.
Catch(error) ==
    IF error.name = "ChatApiError" THEN error
    ELSE IF error.name = "TypeError" /\ Includes(NativeMessage(error.message.v), fetchWord)
    THEN ChatApiError(MsgNetwork, [k |-> "cause", cause |-> error])
    ELSE ChatApiError(MsgUnexpected, [k |-> "cause", cause |-> error])

\* MissingKey testing for undefined only.
MissingKeyUndefinedOnly == API_KEY = JSUndef

\* if (!API_KEY)
MissingKey == ~Truthy(API_KEY)

\* The call up to `await fetch(...)`.
sendChatMessage(message, mode, sessionId, attachments, reset) ==
    /\ chatPc = "idle"
    /\ chatArgs' = [message |-> message, mode |-> mode, sessionId |-> sessionId,
                    reset |-> reset, attachments |-> attachments]
    /\ IF MissingKey
       THEN /\ raised' = ChatApiError(MsgMissingKey, NoDetails)
            /\ result' = [kind |-> "threw", value |-> NoBody, error |-> Catch(raised')]
            /\ chatPc' = "done"
            /\ UNCHANGED <<requestBody, fetchCalls>>
       ELSE /\ requestBody' = BuildRequestBody(chatArgs')
            /\ fetchCalls' = fetchCalls + 1
            /\ chatPc' = "fetch"
            /\ UNCHANGED <<raised, result>>
    /\ UNCHANGED <<API_KEY, response>>
    /\ UNCHANGED speechVars

\* fetch settles and the call runs to its end.
FetchSettled(r) ==
    /\ chatPc = "fetch"
    /\ response' = r
    /\ raised' = ThrownInTry(r)
    /\ result' = IF raised' = NoError
                 THEN [kind |-> "returned", value |-> r.body, error |-> NoError]
                 ELSE [kind |-> "threw", value |-> NoBody, error |-> Catch(raised')]
    /\ chatPc' = "done"
    /\ UNCHANGED <<API_KEY, chatArgs, requestBody, fetchCalls>>
    /\ UNCHANGED speechVars

-----------------------------------------------------------------------------
(* useSpeechRecognition: texts, the platform's engines, the inputs.        *)

MaxEngines == 2         \* SpeechRecognition instances that exist at a time
MaxPending == 1         \* startListening calls awaiting the permission check
MaxLen == 4             \* length of the accumulated final transcript
MaxDispatchTimers == 1  \* pending dispatch-delay timers
MaxRestartTimers == 2   \* pending restart-delay timers
MaxAlerts == 1          \* alert() dialogs shown

Engines == 1..MaxEngines
NoCallback == "null"
Callbacks == {"cb1"}

\* Texts are sequences of characters.
IsSpace(c) == c = " "

RECURSIVE TrimStart(_)
TrimStart(s) == IF s # <<>> /\ IsSpace(Head(s)) THEN TrimStart(Tail(s)) ELSE s

RECURSIVE TrimEnd(_)
TrimEnd(s) ==
    IF s # <<>> /\ IsSpace(s[Len(s)]) THEN TrimEnd(SubSeq(s, 1, Len(s) - 1)) ELSE s

\* String.prototype.trim
Trim(s) == TrimEnd(TrimStart(s))

\* The segments an engine recognises, and the result events it delivers: the
\* results from event.resultIndex on, each final or interim.
Segments == {<<"a", "a", "a">>, <<" ", "a">>}
InterimSegments == {<<"a">>}
Final(t) == [transcript |-> t, isFinal |-> TRUE]
Interim(t) == [transcript |-> t, isFinal |-> FALSE]
\* Finalised results come first in the list, one interim result may follow.
ResultEvents ==
    {<<Final(t)>> : t \in Segments}
    \cup {<<Interim(t)>> : t \in InterimSegments}
    \cup {<<Final(t), Interim(u)>> : t \in Segments, u \in InterimSegments}
    \cup {<<Final(t), Final(u)>> : t \in Segments, u \in Segments}
ErrorCodes == {"aborted", "not-allowed", "no-speech"}

\* The engine instances that exist live in slots.  A slot is "none" when it
\* holds no instance: before one is created, after its end event (an ended
\* instance delivers nothing more, so its slot is free again), or when
\* start() threw.  An instance is "starting" (start() called), "running" (start
\* event delivered), "stopping" (stop() called: it still returns results for
\* the audio captured so far), "aborted" (abort() called: its error and end
\* events are still to come) or "errored" (error event delivered, end event
\* still to come).
LiveStates == {"starting", "running", "stopping"}

\* recognition.abort()
Abort(engs, e) ==
    IF e # 0 /\ engs[e] \in LiveStates THEN [engs EXCEPT ![e] = "aborted"] ELSE engs

\* recognition.stop()
Stop(engs, e) ==
    IF engs[e] \in {"starting", "running"} THEN [engs EXCEPT ![e] = "stopping"] ELSE engs

\* new SpeechRecognition(): the slot of the new instance, 0 when none is free.
NewEngine(engs) ==
    IF \E e \in Engines : engs[e] = "none"
    THEN CHOOSE e \in Engines : engs[e] = "none" /\ \A f \in Engines : engs[f] = "none" => e <= f
    ELSE 0

NotHeld(t) == ~t.held
\* History kept in the timers, read by the properties only: stale once a later
\* stopListening or a later startListening has taken effect, stopped once a
\* later stopListening has.  The same for the startListening calls that await
\* the permission check when stopListening runs.
MarkStale(timers) ==
    [i \in DOMAIN timers |-> [timers[i] EXCEPT !.stale = TRUE]]
MarkStopped(timers) ==
    [i \in DOMAIN timers |-> [timers[i] EXCEPT !.stale = TRUE, !.stopped = TRUE]]
MarkOvertaken(calls) ==
    [i \in DOMAIN calls |-> [calls[i] EXCEPT !.stopped = TRUE]]
Unhold(timers) ==
    [i \in DOMAIN timers |-> [timers[i] EXCEPT !.held = FALSE]]
RemoveAt(s, i) == SubSeq(s, 1, i - 1) \o SubSeq(s, i + 1, Len(s))

-----------------------------------------------------------------------------
(* useSpeechRecognition: the operations.                                   *)

\* useEffect: the platform offers SpeechRecognition.
Mount ==
    /\ ~isSupported
    /\ isSupported' = TRUE
    /\ UNCHANGED chatVars
    /\ UNCHANGED <<alerts, lastCallbackText>>
    /\ UNCHANGED <<isListening, transcript, recognitionRef, onSpeechEndRef,
                   finalTranscriptRef, isVoiceModeRef, timeoutRef, isProcessingRef,
                   lastProcessedTextRef, engines, startCalls, dispatchTimers,
                   restartTimers>>

\* cleanup without the abort of the engine held.
cleanupKeepsEngine ==
    [ restartTimers |-> IF timeoutRef # "null"
                        THEN SelectSeq(restartTimers, NotHeld)
                        ELSE restartTimers,
      timeoutRef |-> "null",
      engines |-> engines,
      recognitionRef |-> recognitionRef,
      isListening |-> FALSE,
      isProcessingRef |-> FALSE ]

\* cleanup without its clearTimeout.
cleanupKeepsTimer ==
    [ restartTimers |-> restartTimers,
      timeoutRef |-> "null",
      engines |-> Abort(engines, recognitionRef),
      recognitionRef |-> 0,
      isListening |-> FALSE,
      isProcessingRef |-> FALSE ]

\* cleanup(): the values it leaves behind.
cleanup ==
    [ restartTimers |-> IF timeoutRef # "null"
                        THEN SelectSeq(restartTimers, NotHeld)
                        ELSE restartTimers,
      timeoutRef |-> "null",
      engines |-> Abort(engines, recognitionRef),
      recognitionRef |-> 0,
      isListening |-> FALSE,
      isProcessingRef |-> FALSE ]

\* startListening(onSpeechEnd) up to `await checkMicrophonePermission()`.
\* `stopped` marks a call that a stopListening() has overtaken.
StartCall(onSpeechEnd, via) ==
    [onSpeechEnd |-> onSpeechEnd, via |-> via, stopped |-> FALSE]

startListening(onSpeechEnd) ==
    /\ isSupported
    /\ Len(startCalls) < MaxPending
    /\ startCalls' = Append(startCalls, StartCall(onSpeechEnd, "caller"))
    /\ UNCHANGED <<dispatchTimers, restartTimers>>
    /\ UNCHANGED chatVars
    /\ UNCHANGED <<alerts, lastCallbackText>>
    /\ UNCHANGED <<isSupported, isListening, transcript, recognitionRef, onSpeechEndRef,
                   finalTranscriptRef, isVoiceModeRef, timeoutRef, isProcessingRef,
                   lastProcessedTextRef, engines>>

\* The denial that runs cleanup() before it returns.
PermissionDeniedCleansUp(i) ==
    LET c == cleanup
    IN  /\ alerts < MaxAlerts
        /\ alerts' = alerts + 1
        /\ restartTimers' = c.restartTimers
        /\ timeoutRef' = c.timeoutRef
        /\ engines' = c.engines
        /\ recognitionRef' = c.recognitionRef
        /\ isListening' = c.isListening
        /\ isProcessingRef' = c.isProcessingRef
        /\ UNCHANGED <<onSpeechEndRef, finalTranscriptRef, isVoiceModeRef,
                       lastProcessedTextRef, dispatchTimers>>

\* startListening after the await, permission denied: alert(...) and return.
PermissionDenied(i) ==
    /\ alerts < MaxAlerts
    /\ alerts' = alerts + 1
    /\ UNCHANGED <<isListening, recognitionRef, onSpeechEndRef,
                   finalTranscriptRef, isVoiceModeRef, timeoutRef,
                   isProcessingRef, lastProcessedTextRef, engines,
                   restartTimers, dispatchTimers>>

\* startListening after the await, permission granted: the previous engine is
\* cleaned up, the flags are set and a new engine is created and started
\* (start() may throw).
PermissionGranted(i, startThrows) ==
    LET c == cleanup
        recognition == NewEngine(c.engines)
        onSpeechEnd == startCalls[i].onSpeechEnd
    IN  /\ recognition # 0
        /\ alerts' = alerts
        /\ restartTimers' = MarkStale(c.restartTimers)
        /\ dispatchTimers' = MarkStale(dispatchTimers)
        /\ timeoutRef' = c.timeoutRef
        /\ isVoiceModeRef' = (onSpeechEnd # NoCallback)
        /\ onSpeechEndRef' = onSpeechEnd
        /\ finalTranscriptRef' = <<>>
        /\ isProcessingRef' = FALSE
        /\ lastProcessedTextRef' = <<>>
        /\ isListening' = FALSE
        /\ IF startThrows
           THEN /\ engines' = c.engines
                /\ recognitionRef' = 0
           ELSE /\ engines' = [c.engines EXCEPT ![recognition] = "starting"]
                /\ recognitionRef' = recognition

\* startListening after the await: the permission check settled for call i.
PermissionSettled(i, hasPermission, startThrows) ==
    /\ i \in DOMAIN startCalls
    /\ startCalls' = RemoveAt(startCalls, i)
    /\ IF ~hasPermission
       THEN PermissionDenied(i)
       ELSE PermissionGranted(i, startThrows)
    /\ UNCHANGED chatVars
    /\ UNCHANGED <<isSupported, transcript, lastCallbackText>>

\* recognition.onstart of engine e
OnStart(e) ==
    /\ engines[e] = "starting"
    /\ engines' = [engines EXCEPT ![e] = "running"]
    /\ isListening' = TRUE
    /\ transcript' = <<>>
    /\ UNCHANGED chatVars
    /\ UNCHANGED <<alerts, lastCallbackText>>
    /\ UNCHANGED <<isSupported, recognitionRef, onSpeechEndRef, finalTranscriptRef,
                   isVoiceModeRef, timeoutRef, isProcessingRef, lastProcessedTextRef,
                   startCalls, dispatchTimers, restartTimers>>

\* The loop of onresult: the concatenated final, and interim, transcripts.
RECURSIVE Concat(_, _)
Concat(results, final) ==
    IF results = <<>> THEN <<>>
    ELSE (IF Head(results).isFinal = final THEN Head(results).transcript ELSE <<>>)
         \o Concat(Tail(results), final)

\* ShouldDispatch without the length test.
ShouldDispatchAnyLength(fullText, lastProcessedText) ==
    fullText # <<>> /\ fullText # lastProcessedText

\* fullText && fullText !== lastProcessedTextRef.current && fullText.length > 2
ShouldDispatch(fullText, lastProcessedText) ==
    fullText # <<>> /\ fullText # lastProcessedText /\ Len(fullText) > 2

\* finalTranscript && isVoiceModeRef.current && onSpeechEndRef.current && !isProcessingRef.current
VoiceModeReady(finalTranscript) ==
    /\ finalTranscript # <<>>
    /\ isVoiceModeRef
    /\ onSpeechEndRef # NoCallback
    /\ ~isProcessingRef

\* recognition.onresult of engine e
OnResult(e, event) ==
    /\ engines[e] \in {"running", "stopping"}
    /\ LET finalTranscript == Concat(event, TRUE)
           interimTranscript == Concat(event, FALSE)
           accumulated == finalTranscriptRef \o finalTranscript
           fullText == Trim(accumulated)
       IN  /\ Len(accumulated) <= MaxLen
           /\ finalTranscriptRef' = accumulated
           /\ transcript' = accumulated \o interimTranscript
           /\ IF VoiceModeReady(finalTranscript) /\ ShouldDispatch(fullText, lastProcessedTextRef)
              THEN /\ Len(dispatchTimers) < MaxDispatchTimers
                   /\ isProcessingRef' = TRUE
                   /\ lastProcessedTextRef' = fullText
                   /\ engines' = Stop(engines, e)
                   /\ dispatchTimers' = Append(dispatchTimers,
                          [callback |-> onSpeechEndRef, fullText |-> fullText,
                           engine |-> e, stale |-> FALSE])
              ELSE UNCHANGED <<isProcessingRef, lastProcessedTextRef, engines,
                               dispatchTimers>>
    /\ UNCHANGED chatVars
    /\ UNCHANGED <<alerts, lastCallbackText>>
    /\ UNCHANGED <<isSupported, isListening, recognitionRef, onSpeechEndRef,
                   isVoiceModeRef, timeoutRef, startCalls, restartTimers>>

\* recognition.onend of engine e
OnEnd(e) ==
    /\ engines[e] \in {"running", "stopping", "aborted", "errored"}
    /\ engines' = [engines EXCEPT ![e] = "none"]
    /\ isListening' = FALSE
    /\ recognitionRef' = 0
    /\ transcript' = IF ~isVoiceModeRef /\ finalTranscriptRef # <<>>
                     THEN finalTranscriptRef
                     ELSE transcript
    /\ UNCHANGED chatVars
    /\ UNCHANGED <<alerts, lastCallbackText>>
    /\ UNCHANGED <<isSupported, onSpeechEndRef, finalTranscriptRef, isVoiceModeRef,
                   timeoutRef, isProcessingRef, lastProcessedTextRef, startCalls,
                   dispatchTimers, restartTimers>>

\* onerror that shows the permission message for every code but "aborted".
OnErrorAlertsUnlessAborted(e, error) ==
    /\ \/ engines[e] \in LiveStates
       \/ engines[e] = "aborted" /\ error = "aborted"
    /\ engines' = [engines EXCEPT ![e] = "errored"]
    /\ isListening' = FALSE
    /\ recognitionRef' = 0
    /\ isProcessingRef' = FALSE
    /\ IF error # "aborted"
       THEN /\ alerts < MaxAlerts
            /\ alerts' = alerts + 1
       ELSE alerts' = alerts
    /\ UNCHANGED chatVars
    /\ UNCHANGED <<isSupported, transcript, onSpeechEndRef, finalTranscriptRef,
                   isVoiceModeRef, timeoutRef, lastProcessedTextRef, startCalls,
                   dispatchTimers, restartTimers, lastCallbackText>>

\* recognition.onerror of engine e; an engine that was aborted reports "aborted".
OnError(e, error) ==
    /\ \/ engines[e] \in LiveStates
       \/ engines[e] = "aborted" /\ error = "aborted"
    /\ engines' = [engines EXCEPT ![e] = "errored"]
    /\ isListening' = FALSE
    /\ recognitionRef' = 0
    /\ isProcessingRef' = FALSE
    /\ IF error = "not-allowed"
       THEN /\ alerts < MaxAlerts
            /\ alerts' = alerts + 1
       ELSE alerts' = alerts
    /\ UNCHANGED chatVars
    /\ UNCHANGED <<isSupported, transcript, onSpeechEndRef, finalTranscriptRef,
                   isVoiceModeRef, timeoutRef, lastProcessedTextRef, startCalls,
                   dispatchTimers, restartTimers, lastCallbackText>>

\* The dispatch-delay timer of onresult fires: callback(fullText).
DispatchTimerFires ==
    /\ dispatchTimers # <<>>
    /\ dispatchTimers' = Tail(dispatchTimers)
    /\ lastCallbackText' = Head(dispatchTimers).fullText
    /\ UNCHANGED chatVars
    /\ UNCHANGED alerts
    /\ UNCHANGED <<isSupported, isListening, transcript, recognitionRef, onSpeechEndRef,
                   finalTranscriptRef, isVoiceModeRef, timeoutRef, isProcessingRef,
                   lastProcessedTextRef, engines, startCalls, restartTimers>>

\* stopListening()
stopListening ==
    LET c == cleanup
    IN  /\ isVoiceModeRef' = FALSE
        /\ onSpeechEndRef' = NoCallback
        /\ lastProcessedTextRef' = <<>>
        /\ isProcessingRef' = c.isProcessingRef
        /\ restartTimers' = MarkStopped(c.restartTimers)
        /\ timeoutRef' = c.timeoutRef
        /\ engines' = c.engines
        /\ recognitionRef' = c.recognitionRef
        /\ isListening' = c.isListening
        /\ dispatchTimers' = MarkStale(dispatchTimers)
        /\ startCalls' = MarkOvertaken(startCalls)
        /\ UNCHANGED chatVars
        /\ UNCHANGED <<alerts, lastCallbackText>>
        /\ UNCHANGED <<isSupported, transcript, finalTranscriptRef>>

\* resetTranscript that also releases the engine, as cleanup does.
resetTranscriptStops ==
    /\ transcript' = <<>>
    /\ finalTranscriptRef' = <<>>
    /\ lastProcessedTextRef' = <<>>
    /\ isProcessingRef' = FALSE
    /\ engines' = Abort(engines, recognitionRef)
    /\ recognitionRef' = 0
    /\ isListening' = FALSE
    /\ UNCHANGED chatVars
    /\ UNCHANGED <<alerts, lastCallbackText>>
    /\ UNCHANGED <<isSupported, onSpeechEndRef, isVoiceModeRef, timeoutRef, startCalls,
                   dispatchTimers, restartTimers>>

\* resetTranscript()
resetTranscript ==
    /\ transcript' = <<>>
    /\ finalTranscriptRef' = <<>>
    /\ lastProcessedTextRef' = <<>>
    /\ isProcessingRef' = FALSE
    /\ UNCHANGED chatVars
    /\ UNCHANGED <<alerts, lastCallbackText>>
    /\ UNCHANGED <<isSupported, isListening, recognitionRef, onSpeechEndRef,
                   isVoiceModeRef, timeoutRef, engines, startCalls, dispatchTimers,
                   restartTimers>>

\* restartListening(onSpeechEnd)
restartListening(onSpeechEnd) ==
    LET kept == IF timeoutRef # "null"
                THEN SelectSeq(restartTimers, NotHeld)
                ELSE restartTimers
    IN  /\ Len(kept) < MaxRestartTimers
        /\ isProcessingRef' = FALSE
        /\ restartTimers' = Append(Unhold(kept),
               [onSpeechEnd |-> onSpeechEnd, held |-> TRUE, stopped |-> FALSE,
                stale |-> FALSE])
        /\ timeoutRef' = "set"
        /\ UNCHANGED chatVars
        /\ UNCHANGED <<alerts, lastCallbackText>>
        /\ UNCHANGED <<isSupported, isListening, transcript, recognitionRef,
                       onSpeechEndRef, finalTranscriptRef, isVoiceModeRef,
                       lastProcessedTextRef, engines, startCalls, dispatchTimers>>

\* RestartGuard dropped.
RestartGuardDropped == TRUE

\* RestartGuard that never lets the timer restart.
RestartGuardNever == FALSE

\* if (isVoiceModeRef.current), in the restart timer
RestartGuard == isVoiceModeRef

\* The restart-delay timer fires: startListening(onSpeechEnd) in voice mode.
RestartTimerFires ==
    /\ restartTimers # <<>>
    /\ restartTimers' = Tail(restartTimers)
    /\ IF RestartGuard /\ isSupported
       THEN /\ Len(startCalls) < MaxPending
            /\ startCalls' = Append(startCalls,
                   StartCall(Head(restartTimers).onSpeechEnd, "timer"))
       ELSE UNCHANGED startCalls
    /\ UNCHANGED dispatchTimers
    /\ UNCHANGED chatVars
    /\ UNCHANGED <<alerts, lastCallbackText>>
    /\ UNCHANGED <<isSupported, isListening, transcript, recognitionRef, onSpeechEndRef,
                   finalTranscriptRef, isVoiceModeRef, timeoutRef, isProcessingRef,
                   lastProcessedTextRef, engines>>

SpeechInit ==
    /\ isSupported = FALSE
    /\ isListening = FALSE
    /\ transcript = <<>>
    /\ recognitionRef = 0
    /\ onSpeechEndRef = NoCallback
    /\ finalTranscriptRef = <<>>
    /\ isVoiceModeRef = FALSE
    /\ timeoutRef = "null"
    /\ isProcessingRef = FALSE
    /\ lastProcessedTextRef = <<>>
    /\ engines = [e \in Engines |-> "none"]
    /\ startCalls = <<>>
    /\ dispatchTimers = <<>>
    /\ restartTimers = <<>>
    /\ alerts = 0
    /\ lastCallbackText = <<>>

-----------------------------------------------------------------------------
(* The specifications.                                                     *)

ChatInit ==
    /\ API_KEY \in ApiKeys
    /\ chatPc = "idle"
    /\ chatArgs = NoArgs
    /\ requestBody = NoRequest
    /\ fetchCalls = 0
    /\ response = NoResponse
    /\ raised = NoError
    /\ result = NoResult

ChatNext ==
    \/ \E m \in Messages, mode \in Modes, s \in SessionIds, a \in AttachmentArgs, reset \in BOOLEAN :
          sendChatMessage(m, mode, s, a, reset)
    \/ \E r \in Responses : FetchSettled(r)

\* The chat client alone: the speech controller stays as constructed.
ChatOnlyInit == ChatInit /\ SpeechInit

ChatSpec == ChatOnlyInit /\ [][ChatNext]_vars

SpeechNext ==
    \/ Mount
    \/ \E cb \in Callbacks \cup {NoCallback} : startListening(cb)
    \/ \E i \in 1..MaxPending, hasPermission \in BOOLEAN, startThrows \in BOOLEAN :
          PermissionSettled(i, hasPermission, startThrows)
    \/ \E e \in Engines : OnStart(e)
    \/ \E e \in Engines, event \in ResultEvents : OnResult(e, event)
    \/ \E e \in Engines : OnEnd(e)
    \/ \E e \in Engines, error \in ErrorCodes : OnError(e, error)
    \/ DispatchTimerFires
    \/ stopListening
    \/ resetTranscript
    \/ \E cb \in Callbacks : restartListening(cb)
    \/ RestartTimerFires

Init == SpeechInit /\ ChatInit /\ API_KEY = Str("key")

Next == SpeechNext

\* The speech controller alone: no chat call is made.
Spec == Init /\ [][Next]_vars

\* A voice conversation that goes on: the caller starts with a callback,
\* restarts and resets, never stops and never switches to manual mode; the
\* permission check grants and recognition.start() does not throw.
VoiceNext ==
    \/ Mount
    \/ \E cb \in Callbacks : startListening(cb)
    \/ \E i \in 1..MaxPending : PermissionSettled(i, TRUE, FALSE)
    \/ \E e \in Engines : OnStart(e)
    \/ \E e \in Engines, event \in ResultEvents : OnResult(e, event)
    \/ \E e \in Engines : OnEnd(e)
    \/ \E e \in Engines, error \in ErrorCodes : OnError(e, error)
    \/ DispatchTimerFires
    \/ resetTranscript
    \/ \E cb \in Callbacks : restartListening(cb)
    \/ RestartTimerFires

\* What the event loop and the platform guarantee: a timer whose delay ran out
\* fires, the permission check settles, and every recognition session ends:
\* an engine delivers its end event after stop(), after abort(), after an
\* error, or when the platform closes the session.
VoiceFairness ==
    /\ WF_vars(RestartTimerFires)
    /\ WF_vars(\E i \in 1..MaxPending : PermissionSettled(i, TRUE, FALSE))
    /\ \A e \in Engines : WF_vars(OnEnd(e))

VoiceSpec == Init /\ [][VoiceNext]_vars /\ VoiceFairness

-----------------------------------------------------------------------------
(* Properties of sendChatMessage, checked under ChatSpec.                  *)

Settled == chatPc = "done"
Threw(e) == result.kind = "threw" /\ result.error = e
Http2xxObject == response.kind = "http" /\ Ok(response.status) /\ response.json = "object"
HttpDetails == [k |-> "http", status |-> response.status,
                statusText |-> StatusText(response.status)]

\* C5: with no credential configured (undefined or the empty string) the
\* call fails with the missing-credential ChatApiError and fetch is never
\* called, whatever the arguments.
C5_MissingCredential ==
    ~Truthy(API_KEY) =>
        /\ fetchCalls = 0
        /\ chatPc # "fetch"
        /\ Settled => Threw(ChatApiError(MsgMissingKey, NoDetails))

C5_Witness ==
    /\ Settled
    /\ API_KEY = Str("")
    /\ Len(chatArgs.attachments.items) = 2
    /\ chatArgs.reset
    /\ result.kind = "threw"

\* C6 as stated: a 2xx object body whose error field is present and is
\* neither null nor the string "null" makes the call fail with a
\* ChatApiError whose message is that value and whose details are the body.
C6_AnyNonNullErrorFails ==
    (Settled /\ Http2xxObject
        /\ response.body.error \notin {JSUndef, JSNull, Str("null")})
    => Threw(ChatApiError(response.body.error, [k |-> "body", body |-> response.body]))

\* C6 as amended: the same for an error field that is truthy (a non-empty
\* string) and not the string "null"; the body is not returned.
C6_TruthyErrorFails ==
    (Settled /\ Http2xxObject
        /\ Truthy(response.body.error) /\ response.body.error # Str("null"))
    => /\ Threw(ChatApiError(response.body.error, [k |-> "body", body |-> response.body]))
       /\ result.kind # "returned"

C6_Witness ==
    /\ Settled
    /\ Http2xxObject
    /\ response.body.error = Str("boom")
    /\ result.error.message = Str("boom")
    /\ result.error.details = [k |-> "body", body |-> response.body]

\* The message the classification table of the specification selects.
C7_TableMessage ==
    LET s == response.status
        b == response.body
        generic == StatusLine(s)
    IN  IF response.json # "object" THEN generic
        ELSE CASE s = 403 /\ (b.error = Str("No valid api key found.")
                               \/ b.message = Str("Invalid API Key")) -> MsgInvalidKey
               [] s = 403 /\ ~(b.error = Str("No valid api key found.")
                               \/ b.message = Str("Invalid API Key")) -> MsgAccessDenied
               [] s = 400 /\ Truthy(b.message) -> b.message
               [] s = 400 /\ ~Truthy(b.message) -> MsgInvalidRequest
               [] s = 500 -> MsgServerError
               [] s \notin {400, 403, 500} /\ Truthy(b.message) -> b.message
               [] s \notin {400, 403, 500} /\ ~Truthy(b.message) /\ Truthy(b.error) -> b.error
               [] s \notin {400, 403, 500} /\ ~Truthy(b.message) /\ ~Truthy(b.error) -> generic

C8_BodyReturnedUnchanged ==
    (Settled /\ Http2xxObject /\ response.body.error \in {JSNull, JSUndef, Str("null")})
    => /\ result.kind = "returned"
       /\ result.value = response.body

C8_Witness ==
    /\ Settled
    /\ Http2xxObject
    /\ response.body.error = Str("null")
    /\ response.body.message = Str("bad")
    /\ result.kind = "returned"

\* C9: a failing call surfaces one ChatApiError: a ChatApiError thrown inside
\* the call reaches the caller as it was thrown, any other exception is
\* wrapped in a ChatApiError, a thrown exception never turns into a return,
\* and fetch is called at most once.
C9_UniformError ==
    /\ fetchCalls <= 1
    /\ Settled =>
        /\ (raised # NoError) <=> (result.kind = "threw")
        /\ result.kind = "threw" =>
            /\ result.error.name = "ChatApiError"
            /\ raised.name = "ChatApiError" => result.error = raised
            /\ raised.name # "ChatApiError" =>
                   result.error.details = [k |-> "cause", cause |-> raised]

C9_Witness ==
    /\ Settled
    /\ fetchCalls = 1
    /\ raised = ChatApiError(MsgServerError, HttpDetails)
    /\ result.error = raised

\* C10: a rejected fetch (a transport failure) surfaces the connectivity
\* message, every other non-ChatApiError exception the fallback message.
C10_TransportVersusFallback ==
    (Settled /\ raised.name \notin {"", "ChatApiError"})
    => IF response.kind = "reject"
       THEN result.error.message = MsgNetwork
       ELSE result.error.message = MsgUnexpected

\* C11: the body handed to fetch holds message, mode, sessionId and reset as
\* they were passed, and holds attachments, verbatim, exactly when the
\* caller passed a non-empty sequence.
C11_RequestBody ==
    fetchCalls > 0 =>
        /\ {"message", "mode", "sessionId", "reset"} \subseteq DOMAIN requestBody
        /\ DOMAIN requestBody \subseteq {"message", "mode", "sessionId", "reset", "attachments"}
        /\ requestBody.message = chatArgs.message
        /\ requestBody.mode = chatArgs.mode
        /\ requestBody.sessionId = chatArgs.sessionId
        /\ requestBody.reset = chatArgs.reset
        /\ ("attachments" \in DOMAIN requestBody)
               <=> (chatArgs.attachments.defined /\ Len(chatArgs.attachments.items) >= 1)
        /\ "attachments" \in DOMAIN requestBody =>
               requestBody.attachments = chatArgs.attachments.items

C11_Witness ==
    /\ fetchCalls = 1
    /\ "attachments" \in DOMAIN requestBody
    /\ Len(requestBody.attachments) = 2
    /\ requestBody.reset

-----------------------------------------------------------------------------
(* Properties of useSpeechRecognition, checked under Spec.                 *)

DispatchScheduled == Len(dispatchTimers') > Len(dispatchTimers)
DispatchTimerFired == Len(dispatchTimers') < Len(dispatchTimers)
RestartTimerStarted ==
    Len(restartTimers') < Len(restartTimers) /\ Len(startCalls') > Len(startCalls)
LiveEngines == {e \in Engines : engines[e] \in LiveStates}

\* C1: an engine whose result event has caused a dispatch (it was asked to
\* stop) schedules no second callback invocation, whatever finalized results
\* it delivers afterwards.
C1_OneDispatchPerEngine ==
    [][DispatchScheduled =>
          engines[dispatchTimers'[Len(dispatchTimers')].engine] # "stopping"]_vars

\* C2: a dispatch-delay timer does not invoke the callback, and a
\* restart-delay timer does not call startListening, once stopListening or
\* a fresh startListening has been called after the timer was scheduled.
C2_NoStaleTimerFires ==
    [][/\ DispatchTimerFired => ~Head(dispatchTimers).stale
       /\ RestartTimerStarted => ~Head(restartTimers).stale]_vars

\* C3: at most one engine instance is live (started or starting, and neither
\* aborted, errored nor ended) at any time.
C3_OneLiveEngine == Cardinality(LiveEngines) <= 1

\* C4: the restart timer calls startListening only when voice mode is active
\* at the moment it fires, and never after a stopListening that came between
\* restartListening and the firing.
C4_RestartOnlyInVoiceMode ==
    [][RestartTimerStarted =>
          isVoiceModeRef /\ ~Head(restartTimers).stopped]_vars

C4_Witness ==
    /\ isVoiceModeRef
    /\ restartTimers = <<>>
    /\ timeoutRef = "set"
    /\ \E i \in DOMAIN startCalls : startCalls[i].via = "timer"

\* The dispatch that the step schedules.
Scheduled == dispatchTimers'[Len(dispatchTimers')]

\* What the claim says of the scheduling of a dispatch, but for the text of the
\* previous dispatch.
SchedulingContract ==
    DispatchScheduled =>
        /\ Scheduled.fullText = Trim(finalTranscriptRef')
        /\ Scheduled.fullText # <<>>
        /\ Len(Scheduled.fullText) > 2
        /\ Scheduled.callback \in Callbacks
        /\ ~isProcessingRef
        /\ isProcessingRef'
        /\ lastProcessedTextRef' = Scheduled.fullText
        /\ engines'[Scheduled.engine] = "stopping"

\* C12 as stated: the scheduling contract, and the callback is never invoked
\* with the text of the previous invocation.
C12_DiffersFromPreviousDispatch ==
    [][/\ SchedulingContract
       /\ DispatchTimerFired => Head(dispatchTimers).fullText # lastCallbackText]_vars

\* C12: a dispatch is scheduled only when none is in flight, with the trimmed
\* accumulated final transcript, which is non-empty, longer than 2 characters
\* and different from the last-dispatched text on record (startListening,
\* stopListening and resetTranscript empty that record); scheduling marks a
\* dispatch in flight, records the text as last-dispatched and stops the
\* engine; the callback is invoked with the text that was scheduled.
C12_DiffersFromRecordedDispatch ==
    [][/\ SchedulingContract
       /\ DispatchScheduled => Scheduled.fullText # lastProcessedTextRef
       /\ DispatchTimerFired => lastCallbackText' = Head(dispatchTimers).fullText]_vars

\* The callback was invoked with a text that trimming shortened, and the
\* record of it is still there.
C12_Witness ==
    /\ lastCallbackText = <<"a", " ", "a">>
    /\ finalTranscriptRef = <<" ", "a", " ", "a">>
    /\ lastProcessedTextRef = lastCallbackText

\* Idle: no engine held, not listening, no timer pending, no call in progress.
Idle ==
    /\ recognitionRef = 0
    /\ ~isListening
    /\ timeoutRef = "null"
    /\ restartTimers = <<>>
    /\ dispatchTimers = <<>>
    /\ startCalls = <<>>

\* A state that stopListening() would leave as it is.
StoppedState ==
    LET c == cleanup
    IN  /\ isVoiceModeRef = FALSE
        /\ onSpeechEndRef = NoCallback
        /\ lastProcessedTextRef = <<>>
        /\ isProcessingRef = c.isProcessingRef
        /\ restartTimers = MarkStopped(c.restartTimers)
        /\ timeoutRef = c.timeoutRef
        /\ engines = c.engines
        /\ recognitionRef = c.recognitionRef
        /\ isListening = c.isListening
        /\ dispatchTimers = MarkStale(dispatchTimers)
        /\ startCalls = MarkOvertaken(startCalls)

\* C13 as stated: stopListening() in an idle state changes nothing.
C13_IdleStopChangesNothing ==
    [][Idle /\ stopListening => UNCHANGED vars]_vars

\* C13: stopListening() in an idle state changes nothing but the voice-mode
\* flag, the callback reference and the dispatch tracking, which it clears,
\* and it raises no error; after stopListening(), in any state, a second
\* stopListening() changes nothing.
C13_IdleStopOnlyClears ==
    /\ [](Idle => ENABLED stopListening)
    /\ [][stopListening =>
             /\ StoppedState'
             /\ recognitionRef' = 0 /\ ~isListening' /\ timeoutRef' = "null"
             /\ Idle => /\ Idle'
                         /\ ~isVoiceModeRef' /\ onSpeechEndRef' = NoCallback
                         /\ ~isProcessingRef' /\ lastProcessedTextRef' = <<>>
                         /\ UNCHANGED <<isSupported, transcript, finalTranscriptRef,
                                         engines, alerts, lastCallbackText>>]_vars

\* stopListening() was called in a voice session that dispatched, and the
\* controller is idle: the next stopListening() is the call on an idle one.
C13_Witness ==
    /\ Idle
    /\ StoppedState
    /\ finalTranscriptRef # <<>>
    /\ lastCallbackText = Trim(finalTranscriptRef)
    /\ transcript = finalTranscriptRef \o <<"a">>

\* C14: resetTranscript(), in any state, empties the displayed transcript and
\* the final buffer and clears the dispatch tracking (in-flight flag and
\* last-dispatched text); the engine held, the engines themselves, the
\* listening flag, the voice-mode flag, the callback reference and the pending
\* restart timer stay as they were.
C14_ResetTranscriptFrame ==
    [][resetTranscript =>
          /\ transcript' = <<>>
          /\ finalTranscriptRef' = <<>>
          /\ lastProcessedTextRef' = <<>>
          /\ ~isProcessingRef'
          /\ UNCHANGED <<recognitionRef, engines, isListening, isVoiceModeRef,
                          onSpeechEndRef, timeoutRef, restartTimers>>]_vars

\* resetTranscript() was called while listening in voice mode, after a
\* dispatch stopped the engine and with a restart timer pending: the tracking
\* is clear, the engine is held and not aborted, the timer is still there.
C14_Witness ==
    /\ isListening
    /\ isVoiceModeRef
    /\ recognitionRef # 0
    /\ engines[recognitionRef] = "stopping"
    /\ transcript = <<>>
    /\ finalTranscriptRef = <<>>
    /\ lastProcessedTextRef = <<>>
    /\ ~isProcessingRef
    /\ timeoutRef = "set"
    /\ restartTimers # <<>>

\* A startListening call that the permission check denies: the call, and its
\* return after the check.
DeniedCall ==
    \/ \E cb \in Callbacks \cup {NoCallback} : startListening(cb)
    \/ \E i \in DOMAIN startCalls, st \in BOOLEAN : PermissionSettled(i, FALSE, st)

\* Idle but for one startListening call awaiting the permission check.
IdleButCalled ==
    /\ recognitionRef = 0
    /\ ~isListening
    /\ timeoutRef = "null"
    /\ restartTimers = <<>>
    /\ dispatchTimers = <<>>
    /\ Len(startCalls) = 1

\* The permission check of a startListening call returned false.
Denied == \E i \in DOMAIN startCalls, st \in BOOLEAN : PermissionSettled(i, FALSE, st)

\* C15: when the permission check fails, startListening shows the permission
\* message once and creates no engine; neither the call nor its return
\* changes the listening flag, the engine reference, the engines, the mode
\* flags, the transcript buffers or the dispatch tracking, and an idle
\* controller stays idle.
C15_DenialChangesNothing ==
    [][/\ Denied => alerts' = alerts + 1
       /\ DeniedCall =>
            /\ UNCHANGED <<isListening, recognitionRef, engines, isVoiceModeRef,
                            onSpeechEndRef, transcript, finalTranscriptRef,
                            isProcessingRef, lastProcessedTextRef, timeoutRef,
                            restartTimers, dispatchTimers>>
       /\ Denied /\ IdleButCalled => Idle']_vars

\* The permission message was shown to a caller that never got an engine.
C15_Witness ==
    /\ alerts = 1
    /\ startCalls = <<>>
    /\ \A e \in Engines : engines[e] = "none"
    /\ recognitionRef = 0
    /\ ~isListening
    /\ ~isVoiceModeRef
    /\ onSpeechEndRef = NoCallback
    /\ transcript = <<>>
    /\ lastCallbackText = <<>>

\* C16: after the error callback of an engine, whatever the code, the
\* listening flag is false, no engine is held and no dispatch is in flight;
\* the permission message is shown for the code not-allowed and for no other.
C16_AfterError ==
    [][\A e \in Engines, error \in ErrorCodes :
          OnError(e, error) =>
              /\ ~isListening'
              /\ recognitionRef' = 0
              /\ ~isProcessingRef'
              /\ alerts' = IF error = "not-allowed" THEN alerts + 1 ELSE alerts]_vars

\* An engine of a voice session that had a dispatch in flight reported an
\* error and has not ended yet; the permission message is up.
C16_Witness ==
    /\ alerts = 1
    /\ \E e \in Engines : engines[e] = "errored"
    /\ isVoiceModeRef
    /\ lastProcessedTextRef # <<>>
    /\ dispatchTimers # <<>>
    /\ ~isProcessingRef
    /\ ~isListening
    /\ recognitionRef = 0

\* A manual session: an engine is held and the session has no callback.
ManualSession == recognitionRef # 0 /\ ~isVoiceModeRef

\* What the end callback leaves behind.
EndCallbackContract ==
    \A e \in Engines :
        OnEnd(e) =>
            /\ ~isListening'
            /\ recognitionRef' = 0
            /\ ~isVoiceModeRef /\ finalTranscriptRef # <<>> =>
                   transcript' = finalTranscriptRef

\* C17: after the end callback of an engine the listening flag is false and
\* no engine is held, and in manual mode with a non-empty final buffer the
\* displayed transcript is the final buffer; the utterance callback is never
\* invoked during a manual session.
C17_EndAndManualMode ==
    [][/\ EndCallbackContract
       /\ DispatchTimerFired => ~ManualSession]_vars

\* The permission check of call i returned true: startListening goes on.
Granted(i) == \E st \in BOOLEAN : PermissionSettled(i, TRUE, st)

\* C18: a startListening call that was awaiting the permission check when
\* stopListening() ran, whether the caller or the restart timer made it, does
\* not go on after the check: it creates no engine and does not set the mode.
C18_StopOvertakesPendingStart ==
    [][\A i \in DOMAIN startCalls : Granted(i) => ~startCalls[i].stopped]_vars

\* The end or error callback of engine e.
EndOrError(e) == OnEnd(e) \/ \E error \in ErrorCodes : OnError(e, error)

\* C19: while the listening flag is true the controller holds the engine that
\* runs, and the end and error callbacks of an engine that is not the one
\* held leave the reference and the listening flag alone.
C19_ListeningHoldsEngine ==
    /\ [](isListening =>
             recognitionRef # 0 /\ engines[recognitionRef] \in {"running", "stopping"})
    /\ [][\A e \in Engines :
             EndOrError(e) /\ recognitionRef # e =>
                 UNCHANGED <<recognitionRef, isListening>>]_vars

-----------------------------------------------------------------------------
(* Properties of the voice conversation, checked under VoiceSpec.          *)

\* A restart is pending in voice mode.
RestartPending == isVoiceModeRef /\ restartTimers # <<>>

\* A new engine was started in voice mode: buffers and tracking are clear.
VoiceEngineStarted ==
    /\ recognitionRef # 0
    /\ engines[recognitionRef] = "starting"
    /\ isVoiceModeRef
    /\ onSpeechEndRef \in Callbacks
    /\ finalTranscriptRef = <<>>
    /\ ~isProcessingRef
    /\ lastProcessedTextRef = <<>>

\* C20: in a voice conversation that is not stopped and whose permission
\* checks grant, a pending restart leads to a new engine started in voice
\* mode with an empty final buffer and clear dispatch tracking; at most one
\* restart timer is pending at a time, restartListening leaves exactly one,
\* and a timer that fires makes at most one startListening call.
C20_AutoContinuation ==
    /\ (RestartPending /\ ~VoiceEngineStarted) ~> VoiceEngineStarted
    /\ [](Len(restartTimers) <= 1)
    /\ [][/\ (\E cb \in Callbacks : restartListening(cb)) => Len(restartTimers') = 1
          /\ RestartTimerFires => /\ restartTimers' = <<>>
                                  /\ Len(startCalls') <= Len(startCalls) + 1]_vars

\* After a dispatch was delivered, the next engine of the voice session is
\* started and no timer or call is left over.
C20_Witness ==
    /\ VoiceEngineStarted
    /\ lastCallbackText # <<>>
    /\ restartTimers = <<>>
    /\ startCalls = <<>>
    /\ dispatchTimers = <<>>

====
